---------------------------- MODULE Spec2Model ----------------------------
(***************************************************************************)
(* Model of the streak tracker in src/main.rs: the category files, the     *)
(* media directory and streaks.json as they sit on disk, load_data, and    *)
(* the three UI callbacks (killer selected, streak category selected,      *)
(* record win / loss) acting on the shared collection and the two          *)
(* selection indices.                                                      *)
(*                                                                         *)
(* A Rust String is a sequence of one-character strings, so that trim,     *)
(* starts_with, format_name, eq_ignore_ascii_case and the byte-wise        *)
(* ordering used by the sort are computed as the code computes them.       *)
(* Vec indices are 0-based as in the source; TLA+ sequences are 1-based,   *)
(* so element i of a Vec v is v[i + 1].                                    *)
(***************************************************************************)
EXTENDS Integers, Sequences, FiniteSets, TLC

(***************************************************************************)
(* Bounds of the model.                                                    *)
(***************************************************************************)
\* wins recorded in one behaviour (the only operation that grows a counter)
MaxWins == 2
\* process restarts in one behaviour
MaxRestarts == 1
\* writes of streaks.json that fail in one behaviour
MaxWriteFailures == 1
\* length of the generated file stems
MaxStemLen == 3

(***************************************************************************)
(* Characters and strings.                                                 *)
(***************************************************************************)
Digits == <<"0", "1", "2", "3", "4", "5", "6", "7", "8", "9">>
UpperLetters == <<"A", "B", "C", "D", "E", "F", "G", "H", "I", "J", "K", "L", "M",
                  "N", "O", "P", "Q", "R", "S", "T", "U", "V", "W", "X", "Y", "Z">>
LowerLetters == <<"a", "b", "c", "d", "e", "f", "g", "h", "i", "j", "k", "l", "m",
                  "n", "o", "p", "q", "r", "s", "t", "u", "v", "w", "x", "y", "z">>

Range(s) == {s[i] : i \in DOMAIN s}

IndexOf(s, c) == CHOOSE i \in DOMAIN s : s[i] = c

Alphabet ==
    {" ", "#", ".", "/", ":", "_"}
        \cup Range(Digits) \cup Range(UpperLetters) \cup Range(LowerLetters)

\* the ASCII code of every character of the model's alphabet
AsciiCode ==
    [c \in Alphabet |->
        CASE c = " " -> 32
          [] c = "#" -> 35
          [] c = "." -> 46
          [] c = "/" -> 47
          [] c = ":" -> 58
          [] c = "_" -> 95
          [] c \in Range(Digits) -> 47 + IndexOf(Digits, c)
          [] c \in Range(UpperLetters) -> 64 + IndexOf(UpperLetters, c)
          [] c \in Range(LowerLetters) -> 96 + IndexOf(LowerLetters, c)]

Ord(c) == AsciiCode[c]

is_uppercase(c) == Ord(c) >= 65 /\ Ord(c) <= 90
is_lowercase(c) == Ord(c) >= 97 /\ Ord(c) <= 122
is_whitespace(c) == Ord(c) = 32

\* u8::to_ascii_lowercase on the code of a character
to_ascii_lowercase(n) == IF n >= 65 /\ n <= 90 THEN n + 32 ELSE n

\* str::eq_ignore_ascii_case
eq_ignore_ascii_case(a, b) ==
    /\ Len(a) = Len(b)
    /\ \A i \in 1..Len(a) :
          to_ascii_lowercase(Ord(a[i])) = to_ascii_lowercase(Ord(b[i]))

\* str::starts_with(char)
starts_with(s, c) == Len(s) > 0 /\ s[1] = c

\* str::trim: drop leading and trailing whitespace
RECURSIVE trim_start(_)
trim_start(s) ==
    IF Len(s) > 0 /\ is_whitespace(s[1]) THEN trim_start(Tail(s)) ELSE s

RECURSIVE trim_end(_)
trim_end(s) ==
    IF Len(s) > 0 /\ is_whitespace(s[Len(s)])
    THEN trim_end(SubSeq(s, 1, Len(s) - 1))
    ELSE s

trim(s) == trim_end(trim_start(s))

\* Ord for String: lexicographic comparison of the bytes; a <= b
RECURSIVE StrLe(_, _)
StrLe(a, b) ==
    IF Len(a) = 0 THEN TRUE
    ELSE IF Len(b) = 0 THEN FALSE
    ELSE IF Ord(a[1]) < Ord(b[1]) THEN TRUE
    ELSE IF Ord(a[1]) > Ord(b[1]) THEN FALSE
    ELSE StrLe(Tail(a), Tail(b))

Max(a, b) == IF a >= b THEN a ELSE b
Min(a, b) == IF a <= b THEN a ELSE b

\* the literals the code compares names against
SURVIVOR == <<"s", "u", "r", "v", "i", "v", "o", "r">>
PNG == <<"p", "n", "g">>
NAME_4K == <<"4", "k">>
NAME_3K == <<"3", "k">>
MEDIA_PREFIX == <<"m", "e", "d", "i", "a", "/">>

DEFAULT_KILLER_STREAK_CATEGORIES ==
    << <<"4", "k">>, <<"3", "k">>,
       <<"P", "e", "r", "k", "l", "e", "s", "s", " ", "4", "k">>,
       <<"P", "e", "r", "k", "l", "e", "s", "s", " ", "3", "k">> >>

DEFAULT_SURVIVOR_STREAK_CATEGORIES ==
    << <<"S", "o", "l", "o", " ", "e", "s", "c", "a", "p", "e">>,
       <<"3", " ", "o", "u", "t">> >>

(***************************************************************************)
(* i32 fields.                                                             *)
(***************************************************************************)
I32Max == 2147483647
I32Min == (-2147483647) - 1

\* cat.current += 1 in the 32-bit field of a build without overflow checks
wrapping_inc(x) == IF x = I32Max THEN I32Min ELSE x + 1

(***************************************************************************)
(* Records of the data model.                                              *)
(***************************************************************************)
StreakCategory(n, c, b) == [name |-> n, current |-> c, best |-> b]

Character(n, p, s) == [name |-> n, image_path |-> p, streaks |-> s]

\* Iterator::position(|x| x.name == name): 0-based index of the first match,
\* or -1 for None
position(v, name) ==
    IF \E i \in 1..Len(v) : v[i].name = name
    THEN (CHOOSE i \in 1..Len(v) :
             /\ v[i].name = name
             /\ \A j \in 1..(i - 1) : v[j].name # name) - 1
    ELSE -1

\* Iterator::any(|x| x.name == name)
any_named(v, name) == \E i \in 1..Len(v) : v[i].name = name

(***************************************************************************)
(* ensure_categories: append, in list order, every category of the list    *)
(* that the character does not have yet.                                   *)
(***************************************************************************)
\* ensure_streaks putting a missing category in front instead of at the end
RECURSIVE ensure_streaks_prepend(_, _)
ensure_streaks_prepend(streaks, categories) ==
    IF Len(categories) = 0 THEN streaks
    ELSE IF any_named(streaks, Head(categories))
         THEN ensure_streaks_prepend(streaks, Tail(categories))
         ELSE ensure_streaks_prepend(
                  <<StreakCategory(Head(categories), 0, 0)>> \o streaks,
                  Tail(categories))

RECURSIVE ensure_streaks(_, _)
ensure_streaks(streaks, categories) ==
    IF Len(categories) = 0 THEN streaks
    ELSE IF any_named(streaks, Head(categories))
         THEN ensure_streaks(streaks, Tail(categories))
         ELSE ensure_streaks(Append(streaks, StreakCategory(Head(categories), 0, 0)),
                             Tail(categories))

ensure_categories(character, categories) ==
    [character EXCEPT !.streaks = ensure_streaks(character.streaks, categories)]

\* ensure_categories reporting a change whenever it was given categories
ensure_categories_changed_always(character, categories) ==
    Len(categories) > 0

\* the bool ensure_categories returns: did it push anything
ensure_categories_changed(character, categories) ==
    \E i \in 1..Len(categories) : ~any_named(character.streaks, categories[i])

(***************************************************************************)
(* format_name: '_' becomes ' ', then a space goes in front of every       *)
(* uppercase character whose predecessor in the output is lowercase.       *)
(***************************************************************************)
replace_underscore(s) == [i \in 1..Len(s) |-> IF s[i] = "_" THEN " " ELSE s[i]]

\* format_fold splitting before every uppercase character
RECURSIVE format_fold_every_upper(_, _)
format_fold_every_upper(acc, rest) ==
    IF Len(rest) = 0 THEN acc
    ELSE LET c == Head(rest)
             split == is_uppercase(c) /\ Len(acc) > 0
         IN format_fold_every_upper(
                IF split THEN acc \o <<" ", c>> ELSE Append(acc, c), Tail(rest))

RECURSIVE format_fold(_, _)
format_fold(acc, rest) ==
    IF Len(rest) = 0 THEN acc
    ELSE LET c == Head(rest)
             split == /\ is_uppercase(c)
                      /\ Len(acc) > 0
                      /\ is_lowercase(acc[Len(acc)])
         IN format_fold(IF split THEN acc \o <<" ", c>> ELSE Append(acc, c),
                        Tail(rest))

format_name(stem) == format_fold(<<>>, replace_underscore(stem))

(***************************************************************************)
(* characters.sort_by(|a, b| a.name.cmp(&b.name)): a stable sort.          *)
(***************************************************************************)
\* insert x behind every element whose name is <= x.name
RECURSIVE sort_insert(_, _)
sort_insert(sorted, x) ==
    IF Len(sorted) = 0 THEN <<x>>
    ELSE IF StrLe(Head(sorted).name, x.name)
         THEN <<Head(sorted)>> \o sort_insert(Tail(sorted), x)
         ELSE <<x>> \o sorted

RECURSIVE sort_from(_, _)
sort_from(sorted, rest) ==
    IF Len(rest) = 0 THEN sorted
    ELSE sort_from(sort_insert(sorted, Head(rest)), Tail(rest))

sort_by_name(v) == sort_from(<<>>, v)

(***************************************************************************)
(* Files on disk.                                                          *)
(***************************************************************************)
\* a line of a text file; ok = FALSE is a line BufRead::lines yields as Err
Line(text) == [ok |-> TRUE, text |-> text]
BadLine == [ok |-> FALSE, text |-> <<>>]

NoFile == [exists |-> FALSE, lines |-> <<>>]
TextFile(lines) == [exists |-> TRUE, lines |-> lines]

\* streaks.json: absent, present but not decodable, or an encoded Vec<Character>
NoJson == [state |-> "absent", data |-> <<>>]
MalformedJson == [state |-> "malformed", data |-> <<>>]
Json(data) == [state |-> "valid", data |-> data]

\* an entry of media/: file stem, extension (if any), and whether the stem is
\* valid UTF-8 (OsStr::to_str gives Some)
NoExt == [some |-> FALSE, text |-> <<>>]
Ext(text) == [some |-> TRUE, text |-> text]
DirEntry(stem, ext, utf8) == [stem |-> stem, ext |-> ext, stem_utf8 |-> utf8]

NoDir == [exists |-> FALSE, entries |-> {}]
Dir(entries) == [exists |-> TRUE, entries |-> entries]

\* PathBuf of an entry of read_dir("media"), as to_string_lossy renders it
path_string(entry) ==
    MEDIA_PREFIX \o entry.stem
        \o (IF entry.ext.some THEN <<".">> \o entry.ext.text ELSE <<>>)

(***************************************************************************)
(* load_categories_from_file and create_default_streaks_file.              *)
(***************************************************************************)
\* .map_while(Result::ok): the lines up to the first unreadable one
RECURSIVE map_while_ok(_)
map_while_ok(lines) ==
    IF Len(lines) = 0 \/ ~Head(lines).ok THEN <<>>
    ELSE <<Head(lines).text>> \o map_while_ok(Tail(lines))

\* .map(trim).filter(not empty and not a comment)
RECURSIVE trim_and_filter(_)
trim_and_filter(texts) ==
    IF Len(texts) = 0 THEN <<>>
    ELSE LET l == trim(Head(texts))
         IN (IF Len(l) > 0 /\ ~starts_with(l, "#") THEN <<l>> ELSE <<>>)
                \o trim_and_filter(Tail(texts))

\* the categories read from the file; empty when it cannot be opened
file_categories(file) ==
    IF file.exists THEN trim_and_filter(map_while_ok(file.lines)) ELSE <<>>

load_categories_from_file(file, defaults) ==
    IF Len(file_categories(file)) > 0 THEN file_categories(file) ELSE defaults

HEADER_LINES ==
    << <<"#", " ", "S", "t", "r", "e", "a", "k", " ", "C", "a", "t", "e", "g", "o", "r", "i", "e", "s", " ", "C", "o", "n", "f", "i", "g", "u", "r", "a", "t", "i", "o", "n">>,
       <<"#", " ", "E", "a", "c", "h", " ", "l", "i", "n", "e", " ", "r", "e", "p", "r", "e", "s", "e", "n", "t", "s", " ", "a", " ", "s", "t", "r", "e", "a", "k", " ", "t", "y", "p", "e", " ", "y", "o", "u", " ", "w", "a", "n", "t", " ", "t", "o", " ", "t", "r", "a", "c", "k", ".">>,
       <<"#", " ", "L", "i", "n", "e", "s", " ", "s", "t", "a", "r", "t", "i", "n", "g", " ", "w", "i", "t", "h", " ", "#", " ", "a", "r", "e", " ", "c", "o", "m", "m", "e", "n", "t", "s", " ", "a", "n", "d", " ", "w", "i", "l", "l", " ", "b", "e", " ", "i", "g", "n", "o", "r", "e", "d", ".">>,
       <<"#", " ", "E", "m", "p", "t", "y", " ", "l", "i", "n", "e", "s", " ", "a", "r", "e", " ", "a", "l", "s", "o", " ", "i", "g", "n", "o", "r", "e", "d", ".">>,
       <<"#">>,
       <<"#", " ", "D", "e", "f", "a", "u", "l", "t", " ", "s", "t", "r", "e", "a", "k", " ", "c", "a", "t", "e", "g", "o", "r", "i", "e", "s", ":">> >>

\* the file create_default_streaks_file writes when every write succeeds
create_default_streaks_file(defaults) ==
    TextFile([i \in 1..(Len(HEADER_LINES) + Len(defaults)) |->
                 IF i <= Len(HEADER_LINES)
                 THEN Line(HEADER_LINES[i])
                 ELSE Line(defaults[i - Len(HEADER_LINES)])])

\* the file after load_categories_from_file: untouched when it yielded
\* categories; otherwise rewritten with the defaults (created = TRUE) or left
\* as it was when File::create fails (created = FALSE)
file_after_load(file, defaults, created) ==
    IF Len(file_categories(file)) > 0 THEN file
    ELSE IF created THEN create_default_streaks_file(defaults)
    ELSE file

(***************************************************************************)
(* load_data.                                                              *)
(***************************************************************************)
\* serde_json::from_reader(..).unwrap_or_else(|_| Vec::new()), or Vec::new()
\* when the file cannot be opened
decode_persisted(json) == IF json.state = "valid" THEN json.data ELSE <<>>

\* does the entry pass the extension test of the scan
is_png(entry) == entry.ext.some /\ eq_ignore_ascii_case(entry.ext.text, PNG)

cats_to_use(name, killer_cats, survivor_cats) ==
    IF eq_ignore_ascii_case(name, SURVIVOR) THEN survivor_cats ELSE killer_cats

\* a new character carries one zeroed category per entry of its list
new_character(entry, killer_cats, survivor_cats) ==
    LET name == format_name(entry.stem)
        cats == cats_to_use(name, killer_cats, survivor_cats)
    IN Character(name, path_string(entry),
                 [i \in 1..Len(cats) |-> StreakCategory(cats[i], 0, 0)])

\* discover without the test for a character of the same name
RECURSIVE discover_no_dedup(_, _, _, _, _)
discover_no_dedup(acc, changed, entries, killer_cats, survivor_cats) ==
    IF Len(entries) = 0
    THEN [characters |-> acc, changed |-> changed, panicked |-> FALSE]
    ELSE LET e == Head(entries)
         IN IF ~is_png(e)
            THEN discover_no_dedup(acc, changed, Tail(entries),
                                   killer_cats, survivor_cats)
            ELSE IF ~e.stem_utf8
            THEN [characters |-> acc, changed |-> changed, panicked |-> TRUE]
            ELSE discover_no_dedup(
                     Append(acc, new_character(e, killer_cats, survivor_cats)),
                     TRUE, Tail(entries), killer_cats, survivor_cats)

\* the scan of media/ over the entries in the order read_dir yields them.
\* Result: the collection, whether a character was pushed, and whether
\* file_stem().unwrap().to_str().unwrap() panicked on the way.
RECURSIVE discover(_, _, _, _, _)
discover(acc, changed, entries, killer_cats, survivor_cats) ==
    IF Len(entries) = 0
    THEN [characters |-> acc, changed |-> changed, panicked |-> FALSE]
    ELSE LET e == Head(entries)
         IN IF ~is_png(e)
            THEN discover(acc, changed, Tail(entries), killer_cats, survivor_cats)
            ELSE IF ~e.stem_utf8
            THEN [characters |-> acc, changed |-> changed, panicked |-> TRUE]
            ELSE IF any_named(acc, format_name(e.stem))
            THEN discover(acc, changed, Tail(entries), killer_cats, survivor_cats)
            ELSE discover(Append(acc, new_character(e, killer_cats, survivor_cats)),
                          TRUE, Tail(entries), killer_cats, survivor_cats)

\* the loop over every character calling ensure_categories
ensure_all(chars, killer_cats, survivor_cats) ==
    [i \in 1..Len(chars) |->
        ensure_categories(chars[i],
                          cats_to_use(chars[i].name, killer_cats, survivor_cats))]

categories_updated(chars, killer_cats, survivor_cats) ==
    \E i \in 1..Len(chars) :
        ensure_categories_changed(chars[i],
                          cats_to_use(chars[i].name, killer_cats, survivor_cats))

\* load_data up to the save: entries is the media/ listing in read_dir order
\* (empty when read_dir fails)
load_data(killer_file, survivor_file, json, entries) ==
    LET killer_cats ==
            load_categories_from_file(killer_file, DEFAULT_KILLER_STREAK_CATEGORIES)
        survivor_cats ==
            load_categories_from_file(survivor_file, DEFAULT_SURVIVOR_STREAK_CATEGORIES)
        scan == discover(decode_persisted(json), FALSE, entries,
                         killer_cats, survivor_cats)
    IN [panicked |-> scan.panicked,
        unsorted |-> ensure_all(scan.characters, killer_cats, survivor_cats),
        data_changed |-> scan.changed
                           \/ categories_updated(scan.characters,
                                                 killer_cats, survivor_cats),
        characters |-> sort_by_name(ensure_all(scan.characters,
                                               killer_cats, survivor_cats))]

\* save_data that opens the file but never writes the collection
save_data_not_written(json, chars, outcome) ==
    CASE outcome = "ok" -> json
      [] outcome = "open_failed" -> json
      [] outcome = "write_failed" -> MalformedJson

\* save_data: the file after the call.  "ok": opened, truncated and written;
\* "open_failed": the file is left as it was; "write_failed": truncated, then
\* the write failed, which leaves text that does not decode
SaveOutcomes == {"ok", "open_failed", "write_failed"}

save_data(json, chars, outcome) ==
    CASE outcome = "ok" -> Json(chars)
      [] outcome = "open_failed" -> json
      [] outcome = "write_failed" -> MalformedJson

\* the orders in which read_dir can yield a set of entries
Orders(S) ==
    {s \in [1..Cardinality(S) -> S] : \A i, j \in DOMAIN s : s[i] = s[j] => i = j}

(***************************************************************************)
(* The callbacks' computations.                                            *)
(***************************************************************************)
\* update_ui: the counter and best the window shows for a character
update_ui(shown, character, streak_idx) ==
    LET i == Min(streak_idx, Max(Len(character.streaks) - 1, 0))
    IN IF i < Len(character.streaks)
       THEN [counter |-> character.streaks[i + 1].current,
             pbValue |-> character.streaks[i + 1].best]
       ELSE shown

\* record_selected with best = current in place of best.max(current)
record_selected_no_max(streaks, s_idx, is_win) ==
    IF s_idx < Len(streaks)
    THEN LET cat == streaks[s_idx + 1]
         IN IF is_win
            THEN [streaks EXCEPT ![s_idx + 1] =
                     [cat EXCEPT !.current = wrapping_inc(cat.current),
                                 !.best = wrapping_inc(cat.current)]]
            ELSE [streaks EXCEPT ![s_idx + 1] = [cat EXCEPT !.current = 0]]
    ELSE streaks

\* record_selected with a loss that also clears best
record_selected_loss_clears_best(streaks, s_idx, is_win) ==
    IF s_idx < Len(streaks)
    THEN LET cat == streaks[s_idx + 1]
         IN IF is_win
            THEN [streaks EXCEPT ![s_idx + 1] =
                     [cat EXCEPT !.current = wrapping_inc(cat.current),
                                 !.best = Max(cat.best, wrapping_inc(cat.current))]]
            ELSE [streaks EXCEPT ![s_idx + 1] =
                     [cat EXCEPT !.current = 0, !.best = 0]]
    ELSE streaks

\* record, the mutation of the selected category (get_mut(s_idx) may be None)
record_selected(streaks, s_idx, is_win) ==
    IF s_idx < Len(streaks)
    THEN LET cat == streaks[s_idx + 1]
         IN IF is_win
            THEN [streaks EXCEPT ![s_idx + 1] =
                     [cat EXCEPT !.current = wrapping_inc(cat.current),
                                 !.best = Max(cat.best, wrapping_inc(cat.current))]]
            ELSE [streaks EXCEPT ![s_idx + 1] = [cat EXCEPT !.current = 0]]
    ELSE streaks

\* propagate_4k taking the minimum instead of the maximum
propagate_4k_min(name, streaks, is_win) ==
    IF /\ is_win
       /\ ~eq_ignore_ascii_case(name, SURVIVOR)
       /\ any_named(streaks, NAME_4K)
       /\ any_named(streaks, NAME_3K)
    THEN LET best_4k == streaks[position(streaks, NAME_4K) + 1].best
             k == position(streaks, NAME_3K) + 1
         IN [streaks EXCEPT ![k].best = Min(streaks[k].best, best_4k)]
    ELSE streaks

\* propagate_4k without the test for the survivor group
propagate_4k_any_group(name, streaks, is_win) ==
    IF /\ is_win
       /\ any_named(streaks, NAME_4K)
       /\ any_named(streaks, NAME_3K)
    THEN LET best_4k == streaks[position(streaks, NAME_4K) + 1].best
             k == position(streaks, NAME_3K) + 1
         IN [streaks EXCEPT ![k].best = Max(streaks[k].best, best_4k)]
    ELSE streaks

\* record, the killer-specific rule: the best of the first "4k" is a floor
\* for the best of the first "3k"
propagate_4k(name, streaks, is_win) ==
    IF /\ is_win
       /\ ~eq_ignore_ascii_case(name, SURVIVOR)
       /\ any_named(streaks, NAME_4K)
       /\ any_named(streaks, NAME_3K)
    THEN LET best_4k == streaks[position(streaks, NAME_4K) + 1].best
             k == position(streaks, NAME_3K) + 1
         IN [streaks EXCEPT ![k].best = Max(streaks[k].best, best_4k)]
    ELSE streaks

\* record without the killer-specific rule
record_without_propagation(character, s_idx, is_win) ==
    [character EXCEPT !.streaks = record_selected(character.streaks, s_idx, is_win)]

\* record, the whole mutation of the selected character
record(character, s_idx, is_win) ==
    [character EXCEPT !.streaks =
        propagate_4k(character.name,
                     record_selected(character.streaks, s_idx, is_win),
                     is_win)]

\* record, the pair handed to the window
record_result(character, s_idx) ==
    IF s_idx < Len(character.streaks)
    THEN [counter |-> character.streaks[s_idx + 1].current,
          pbValue |-> character.streaks[s_idx + 1].best]
    ELSE [counter |-> 0, pbValue |-> 0]

\* cat.current += 1 overflows the i32
overflows(character, s_idx, is_win) ==
    /\ is_win
    /\ s_idx < Len(character.streaks)
    /\ character.streaks[s_idx + 1].current = I32Max

(***************************************************************************)
(* State.                                                                  *)
(***************************************************************************)
VARIABLES
    killer_txt,          \* killer_streaks.txt
    survivor_txt,        \* survivor_streaks.txt
    streaks_json,        \* streaks.json
    media,               \* the directory media/
    characters,          \* Rc<RefCell<Vec<Character>>>
    current_char_idx,    \* 0-based index of the selected character
    current_streak_idx,  \* 0-based index of the selected category
    shown,               \* counter and pbValue of the window
    pc,                  \* "boot": main not yet run; "running": in ui.run();
                         \* "crashed": the process panicked
    last,                \* the call handled last, its arguments and outcome
    nwins,               \* wins recorded so far
    restarts,            \* process restarts so far
    write_failures       \* failed writes of streaks.json so far

vars == <<killer_txt, survivor_txt, streaks_json, media, characters,
          current_char_idx, current_streak_idx, shown, pc, last, nwins, restarts,
          write_failures>>

disk == <<killer_txt, survivor_txt, streaks_json, media>>
selection == <<current_char_idx, current_streak_idx>>

Call(op, name, is_win, data_changed, saved) ==
    [op |-> op, name |-> name, is_win |-> is_win,
     data_changed |-> data_changed, saved |-> saved]

(***************************************************************************)
(* The disks the program is started on.                                    *)
(***************************************************************************)
NURSE == <<"N", "u", "r", "s", "e">>
ONI == <<"O", "n", "i">>
TRAPPER == <<"T", "r", "a", "p", "p", "e", "r">>
SURVIVOR_CAP == <<"S", "u", "r", "v", "i", "v", "o", "r">>
NOBODY == <<"N", "o", "b", "o", "d", "y">>
SOLO == <<"S", "o", "l", "o">>

KILLER_TXT_4K_3K ==
    TextFile(<< Line(<<"#", " ", "m", "i", "n", "e">>), Line(<<" ", "4", "k", " ">>), Line(<<>>), Line(<<"3", "k">>) >>)

KILLER_TXT_DUPLICATE ==
    TextFile(<< Line(<<"4", "k">>), Line(<<"4", "k">>) >>)

SURVIVOR_TXT_SOLO == TextFile(<< Line(SOLO) >>)

JSON_ONI_SURVIVOR ==
    Json(<< Character(ONI, <<"m", "e", "d", "i", "a", "/", "O", "n", "i", ".", "p", "n", "g">>,
                      << StreakCategory(NAME_4K, 0, 5) >>),
            Character(SURVIVOR_CAP, <<"m", "e", "d", "i", "a", "/", "S", "u", "r", "v", "i", "v", "o", "r", ".", "p", "n", "g">>,
                      << StreakCategory(NAME_4K, 5, 7),
                         StreakCategory(NAME_3K, 2, 2) >>) >>)

JSON_TRAPPER_NURSE ==
    Json(<< Character(TRAPPER, <<"m", "e", "d", "i", "a", "/", "T", "r", "a", "p", "p", "e", "r", ".", "p", "n", "g">>,
                      << StreakCategory(NAME_3K, 2, 2),
                         StreakCategory(NAME_4K, I32Max, I32Max) >>),
            Character(NURSE, <<"m", "e", "d", "i", "a", "/", "N", "u", "r", "s", "e", ".", "p", "n", "g">>,
                      << StreakCategory(NAME_4K, 5, 3) >>) >>)

JSON_NO_STREAKS ==
    Json(<< Character(ONI, <<"m", "e", "d", "i", "a", "/", "O", "n", "i", ".", "p", "n", "g">>, <<>>) >>)

MEDIA_NURSE == Dir({ DirEntry(NURSE, Ext(PNG), TRUE) })

MEDIA_GHOST_FACE ==
    Dir({ DirEntry(<<"G", "h", "o", "s", "t", "_", "F", "a", "c", "e">>, Ext(PNG), TRUE),
          DirEntry(<<"G", "h", "o", "s", "t", "F", "a", "c", "e">>, Ext(<<"P", "N", "G">>), TRUE),
          DirEntry(<<"s", "u", "r", "v", "i", "v", "o", "r">>, Ext(<<"t", "x", "t">>), TRUE) })

MEDIA_NOT_UTF8 ==
    Dir({ DirEntry(<<"s", "u", "r", "v", "i", "v", "o", "r">>, Ext(PNG), TRUE),
          DirEntry(<<"r", "a", "w">>, Ext(PNG), FALSE) })

Disk(k, s, j, m) == [killer_txt |-> k, survivor_txt |-> s, streaks_json |-> j, media |-> m]

Disks ==
    { Disk(NoFile, NoFile, NoJson, NoDir),
      Disk(NoFile, NoFile, NoJson, Dir({})),
      Disk(NoFile, NoFile, NoJson, MEDIA_NURSE),
      Disk(KILLER_TXT_4K_3K, SURVIVOR_TXT_SOLO, JSON_ONI_SURVIVOR, Dir({})),
      Disk(KILLER_TXT_4K_3K, NoFile, JSON_TRAPPER_NURSE, MEDIA_NURSE),
      Disk(KILLER_TXT_DUPLICATE, NoFile, MalformedJson, MEDIA_GHOST_FACE),
      Disk(KILLER_TXT_4K_3K, SURVIVOR_TXT_SOLO, NoJson, MEDIA_NOT_UTF8),
      Disk(KILLER_TXT_4K_3K, NoFile, JSON_NO_STREAKS, NoDir) }

Init ==
    /\ \E d \in Disks :
          /\ killer_txt = d.killer_txt
          /\ survivor_txt = d.survivor_txt
          /\ streaks_json = d.streaks_json
          /\ media = d.media
    /\ characters = <<>>
    /\ current_char_idx = 0
    /\ current_streak_idx = 0
    /\ shown = [counter |-> 0, pbValue |-> 0]
    /\ pc = "boot"
    /\ last = Call("none", <<>>, FALSE, FALSE, "none")
    /\ nwins = 0
    /\ restarts = 0
    /\ write_failures = 0

(***************************************************************************)
(* main up to ui.run(): load_data, the two indices, the first update_ui.   *)
(***************************************************************************)
\* the outcomes a write of streaks.json can have in the current state
PossibleOutcomes ==
    IF write_failures < MaxWriteFailures THEN SaveOutcomes ELSE {"ok"}

Main ==
    /\ pc = "boot"
    /\ \E entries \in Orders(media.entries), created_k, created_s \in BOOLEAN :
          LET loaded == load_data(killer_txt, survivor_txt, streaks_json, entries)
          IN /\ killer_txt' = file_after_load(killer_txt,
                                   DEFAULT_KILLER_STREAK_CATEGORIES, created_k)
             /\ survivor_txt' = file_after_load(survivor_txt,
                                   DEFAULT_SURVIVOR_STREAK_CATEGORIES, created_s)
             /\ IF loaded.panicked
                THEN \* file_stem().unwrap().to_str().unwrap() panics
                     /\ pc' = "crashed"
                     /\ last' = Call("main", <<>>, FALSE, FALSE, "panicked")
                     /\ UNCHANGED <<streaks_json, characters, shown, write_failures>>
                ELSE /\ pc' = "running"
                     /\ characters' = loaded.characters
                     /\ shown' = IF Len(loaded.characters) > 0
                                 THEN update_ui(shown, loaded.characters[1], 0)
                                 ELSE shown
                     /\ IF loaded.data_changed
                        THEN \E outcome \in PossibleOutcomes :
                                /\ streaks_json' =
                                       save_data(streaks_json, loaded.unsorted, outcome)
                                /\ write_failures' =
                                       IF outcome = "ok" THEN write_failures
                                       ELSE write_failures + 1
                                /\ last' = Call("main", <<>>, FALSE, TRUE, outcome)
                        ELSE /\ last' = Call("main", <<>>, FALSE, FALSE, "none")
                             /\ UNCHANGED <<streaks_json, write_failures>>
    /\ current_char_idx' = 0
    /\ current_streak_idx' = 0
    /\ UNCHANGED <<media, nwins, restarts>>

(***************************************************************************)
(* The callbacks.                                                          *)
(***************************************************************************)
\* names the window can hand to the selection callbacks
EntityNames == {characters[i].name : i \in 1..Len(characters)} \cup {NOBODY}

CategoryNames ==
    UNION {{characters[i].streaks[j].name : j \in 1..Len(characters[i].streaks)}
              : i \in 1..Len(characters)}
        \cup {SOLO}

\* on_killer_selected without the reset of the category index
on_killer_selected_keeps_category(name) ==
    /\ pc = "running"
    /\ LET idx == position(characters, name)
       IN IF idx >= 0
          THEN /\ current_char_idx' = idx
               /\ current_streak_idx' = current_streak_idx
               /\ shown' = update_ui(shown, characters[idx + 1], current_streak_idx)
          ELSE UNCHANGED <<current_char_idx, current_streak_idx, shown>>
    /\ last' = Call("on_killer_selected", name, FALSE, FALSE, "none")
    /\ UNCHANGED <<disk, characters, pc, nwins, restarts, write_failures>>

on_killer_selected(name) ==
    /\ pc = "running"
    /\ LET idx == position(characters, name)
       IN IF idx >= 0
          THEN /\ current_char_idx' = idx
               /\ current_streak_idx' = 0
               /\ shown' = update_ui(shown, characters[idx + 1], 0)
          ELSE UNCHANGED <<current_char_idx, current_streak_idx, shown>>
    /\ last' = Call("on_killer_selected", name, FALSE, FALSE, "none")
    /\ UNCHANGED <<disk, characters, pc, nwins, restarts, write_failures>>

\* on_streak_category_selected falling back to the first category on a miss
on_streak_category_selected_or_first(cat) ==
    /\ pc = "running"
    /\ IF current_char_idx >= Len(characters)
       THEN /\ pc' = "crashed"
            /\ UNCHANGED <<current_streak_idx, shown>>
       ELSE LET streaks == characters[current_char_idx + 1].streaks
                pos == Max(position(streaks, cat), 0)
            IN /\ pc' = pc
               /\ IF pos < Len(streaks)
                  THEN /\ current_streak_idx' = pos
                       /\ shown' = [counter |-> streaks[pos + 1].current,
                                    pbValue |-> streaks[pos + 1].best]
                  ELSE UNCHANGED <<current_streak_idx, shown>>
    /\ last' = Call("on_streak_category_selected", cat, FALSE, FALSE, "none")
    /\ UNCHANGED <<disk, characters, current_char_idx, nwins, restarts,
                   write_failures>>

on_streak_category_selected(cat) ==
    /\ pc = "running"
    /\ IF current_char_idx >= Len(characters)
       THEN \* char_data[char_idx] is out of bounds
            /\ pc' = "crashed"
            /\ UNCHANGED <<current_streak_idx, shown>>
       ELSE LET streaks == characters[current_char_idx + 1].streaks
                pos == position(streaks, cat)
            IN /\ pc' = pc
               /\ IF pos >= 0
                  THEN /\ current_streak_idx' = pos
                       /\ shown' = [counter |-> streaks[pos + 1].current,
                                    pbValue |-> streaks[pos + 1].best]
                  ELSE UNCHANGED <<current_streak_idx, shown>>
    /\ last' = Call("on_streak_category_selected", cat, FALSE, FALSE, "none")
    /\ UNCHANGED <<disk, characters, current_char_idx, nwins, restarts,
                   write_failures>>

Record(is_win) ==
    /\ pc = "running"
    /\ is_win => nwins < MaxWins
    /\ nwins' = IF is_win THEN nwins + 1 ELSE nwins
    /\ IF current_char_idx >= Len(characters)
       THEN \* list[char_idx] is out of bounds
            /\ pc' = "crashed"
            /\ last' = Call("record", <<>>, is_win, FALSE, "none")
            /\ UNCHANGED <<characters, streaks_json, shown, write_failures>>
       ELSE LET character == characters[current_char_idx + 1]
                after == record(character, current_streak_idx, is_win)
            IN \/ \* a build with overflow checks panics on += 1
                  /\ overflows(character, current_streak_idx, is_win)
                  /\ pc' = "crashed"
                  /\ last' = Call("record", <<>>, is_win, FALSE, "none")
                  /\ UNCHANGED <<characters, streaks_json, shown, write_failures>>
               \/ \* a build without them wraps
                  \E outcome \in PossibleOutcomes :
                     /\ pc' = pc
                     /\ characters' =
                            [characters EXCEPT ![current_char_idx + 1] = after]
                     /\ streaks_json' = save_data(streaks_json, characters', outcome)
                     /\ write_failures' = IF outcome = "ok" THEN write_failures
                                          ELSE write_failures + 1
                     /\ shown' = record_result(after, current_streak_idx)
                     /\ last' = Call("record", <<>>, is_win, FALSE, outcome)
    /\ UNCHANGED <<killer_txt, survivor_txt, media, selection, restarts>>

\* the process ends (the window is closed, or it has panicked) and is
\* started again on the disk it left behind.  The new process starts with
\* fresh indices and a fresh window; characters still holds what the ended
\* process had in memory until main has run again, and last still holds
\* the outcome of main when the ended process handled no call after it
Restart ==
    /\ pc \in {"running", "crashed"}
    /\ restarts < MaxRestarts
    /\ restarts' = restarts + 1
    /\ pc' = "boot"
    /\ current_char_idx' = 0
    /\ current_streak_idx' = 0
    /\ shown' = [counter |-> 0, pbValue |-> 0]
    /\ last' = IF last.op = "main" THEN last
               ELSE Call("restart", <<>>, FALSE, FALSE, "none")
    /\ UNCHANGED <<disk, characters, nwins, write_failures>>

Next ==
    \/ Main
    \/ \E name \in EntityNames : on_killer_selected(name)
    \/ \E cat \in CategoryNames : on_streak_category_selected(cat)
    \/ \E is_win \in BOOLEAN : Record(is_win)
    \/ Restart

Spec == Init /\ [][Next]_vars

(***************************************************************************)
(* Startup alone, on a wider choice of disks: every combination of the     *)
(* category files, persisted files and media directories below, and a      *)
(* media directory with one image for every stem over a small alphabet.    *)
(***************************************************************************)
NURSE_LOWER == <<"n", "u", "r", "s", "e">>
PIG_MASK_STEM == <<"P", "i", "g", "M", "a", "s", "k">>
GHOST_FACE_STEM == <<"G", "h", "o", "s", "t", "_", "F", "a", "c", "e">>

KILLER_TXT_COMMENTS ==
    TextFile(<< Line(<<"#", " ", "n", "o", "n", "e">>), Line(<<" ", " ">>) >>)

KILLER_TXT_UNREADABLE_LINE ==
    TextFile(<< Line(NAME_4K), BadLine, Line(NAME_3K) >>)

MEDIA_LETTER_CASE ==
    Dir({ DirEntry(NURSE, Ext(PNG), TRUE),
          DirEntry(NURSE_LOWER, Ext(PNG), TRUE) })

KillerFiles ==
    { NoFile, KILLER_TXT_4K_3K, KILLER_TXT_DUPLICATE, KILLER_TXT_COMMENTS,
      KILLER_TXT_UNREADABLE_LINE }

SurvivorFiles == { NoFile, SURVIVOR_TXT_SOLO }

JsonFiles ==
    { NoJson, MalformedJson, JSON_ONI_SURVIVOR, JSON_TRAPPER_NURSE, JSON_NO_STREAKS }

MediaDirs ==
    { NoDir, Dir({}), MEDIA_NURSE, MEDIA_GHOST_FACE, MEDIA_NOT_UTF8,
      MEDIA_LETTER_CASE }

StemAlphabet == {"a", "A", "B", "_"}

Stems ==
    UNION {[1..n -> StemAlphabet] : n \in 1..MaxStemLen}
        \cup {ONI, PIG_MASK_STEM, GHOST_FACE_STEM}

LoadDisks ==
    {Disk(k, s, j, m) : k \in KillerFiles, s \in SurvivorFiles,
                        j \in JsonFiles, m \in MediaDirs}
        \cup {Disk(NoFile, NoFile, NoJson, Dir({DirEntry(stem, Ext(PNG), TRUE)}))
                  : stem \in Stems}

InitLoad ==
    /\ \E d \in LoadDisks :
          /\ killer_txt = d.killer_txt
          /\ survivor_txt = d.survivor_txt
          /\ streaks_json = d.streaks_json
          /\ media = d.media
    /\ characters = <<>>
    /\ current_char_idx = 0
    /\ current_streak_idx = 0
    /\ shown = [counter |-> 0, pbValue |-> 0]
    /\ pc = "boot"
    /\ last = Call("none", <<>>, FALSE, FALSE, "none")
    /\ nwins = 0
    /\ restarts = 0
    /\ write_failures = 0

NextLoad ==
    \/ Main
    \/ Restart

SpecLoad == InitLoad /\ [][NextLoad]_vars

(***************************************************************************)
(* Vocabulary of the properties.                                           *)
(***************************************************************************)
Callbacks == {"on_killer_selected", "on_streak_category_selected", "record"}

HasSelectedCharacter == current_char_idx < Len(characters)

SelectedCharacter == characters[current_char_idx + 1]

HasSelectedCategory ==
    /\ HasSelectedCharacter
    /\ current_streak_idx < Len(SelectedCharacter.streaks)

SelectedCategory == SelectedCharacter.streaks[current_streak_idx + 1]

\* the category of that name the code's lookups find: the first one
Named(streaks, name) ==
    streaks[CHOOSE i \in 1..Len(streaks) :
               /\ streaks[i].name = name
               /\ \A j \in 1..(i - 1) : streaks[j].name # name]

IsFirstNamed(streaks, s_idx, name) ==
    /\ s_idx < Len(streaks)
    /\ streaks[s_idx + 1].name = name
    /\ \A j \in 1..s_idx : streaks[j].name # name

\* "survivor" in any mix of upper and lower case, spelled out letter by letter
SURVIVOR_UPPER == <<"S", "U", "R", "V", "I", "V", "O", "R">>

IsSurvivorName(name) ==
    /\ Len(name) = 8
    /\ \A i \in 1..8 : name[i] \in {SURVIVOR[i], SURVIVOR_UPPER[i]}

\* the step is a call of record(is_win) that returned
RecordReturned(is_win) ==
    /\ last'.op = "record"
    /\ last'.is_win = is_win
    /\ pc' = "running"

\* every character but the selected one is left as it was
OtherCharactersUnchanged ==
    /\ Len(characters') = Len(characters)
    /\ \A i \in 1..Len(characters) :
          i # current_char_idx + 1 => characters'[i] = characters[i]

\* of the selected character, only the counters of the selected category may
\* have changed
OnlySelectedCategoryTouched ==
    /\ OtherCharactersUnchanged
    /\ SelectedCharacter'.name = SelectedCharacter.name
    /\ SelectedCharacter'.image_path = SelectedCharacter.image_path
    /\ Len(SelectedCharacter'.streaks) = Len(SelectedCharacter.streaks)
    /\ \A j \in 1..Len(SelectedCharacter.streaks) :
          /\ SelectedCharacter'.streaks[j].name = SelectedCharacter.streaks[j].name
          /\ j # current_streak_idx + 1 =>
                SelectedCharacter'.streaks[j] = SelectedCharacter.streaks[j]

(***************************************************************************)
(* C1.  A win on the selected category (current = c, best = b) leaves it   *)
(* at, and shows, (c + 1, max(b, c + 1)), for every selected category of   *)
(* every character whatever the other categories hold.                     *)
(* This is the statement as claimed; it does not hold: a win on "3k" of a  *)
(* killer whose "4k" has a larger best ends with the best of "4k".         *)
(***************************************************************************)
C1_WinAsClaimed ==
    [][(RecordReturned(TRUE) /\ HasSelectedCategory) =>
          LET c == SelectedCategory.current
              b == SelectedCategory.best
          IN /\ c < I32Max
             /\ SelectedCategory'.current = c + 1
             /\ SelectedCategory'.best = Max(b, c + 1)
             /\ shown' = [counter |-> c + 1, pbValue |-> Max(b, c + 1)]]_vars

(***************************************************************************)
(* C1, amended.  A win that returns leaves the selected category at, and   *)
(* shows, (c1, max(b, c1)) where c1 is c + 1 in the 32-bit field; except   *)
(* that when the character is not the survivor, the selected category is   *)
(* its "3k" and it has a "4k", best is max(b, c1, best of "4k").           *)
(***************************************************************************)
C1_WinOnSelected ==
    [][(RecordReturned(TRUE) /\ HasSelectedCategory) =>
          LET c == SelectedCategory.current
              b == SelectedCategory.best
              c1 == IF c = I32Max THEN I32Min ELSE c + 1
              streaks == SelectedCharacter.streaks
              floored == /\ ~IsSurvivorName(SelectedCharacter.name)
                         /\ IsFirstNamed(streaks, current_streak_idx, NAME_3K)
                         /\ \E j \in 1..Len(streaks) : streaks[j].name = NAME_4K
              b1 == IF floored
                    THEN Max(Max(b, c1), Named(streaks, NAME_4K).best)
                    ELSE Max(b, c1)
          IN /\ SelectedCategory'.name = SelectedCategory.name
             /\ SelectedCategory'.current = c1
             /\ SelectedCategory'.best = b1
             /\ shown' = [counter |-> c1, pbValue |-> b1]]_vars

\* a win was just recorded on the "3k" of a killer and the best it shows is
\* the best of "4k", above its own streak
C1_Witness ==
    /\ pc = "running"
    /\ last.op = "record" /\ last.is_win
    /\ HasSelectedCategory
    /\ ~IsSurvivorName(SelectedCharacter.name)
    /\ SelectedCategory.name = NAME_3K
    /\ SelectedCategory.current = 1
    /\ SelectedCategory.best = 5
    /\ shown = [counter |-> 1, pbValue |-> 5]

(***************************************************************************)
(* C2.  A loss sets current of the selected category to 0 and changes      *)
(* nothing else: not its best, no other category, no other character, and  *)
(* neither selection index.                                                *)
(***************************************************************************)
C2_LossOnlyResetsCurrent ==
    [][RecordReturned(FALSE) =>
          /\ HasSelectedCategory
          /\ OnlySelectedCategoryTouched
          /\ SelectedCategory'.current = 0
          /\ SelectedCategory'.best = SelectedCategory.best
          /\ current_char_idx' = current_char_idx
          /\ current_streak_idx' = current_streak_idx]_vars

\* a loss was just recorded on a category that had current = 5, best = 7
C2_Witness ==
    /\ pc = "running"
    /\ last.op = "record" /\ ~last.is_win
    /\ HasSelectedCategory
    /\ SelectedCategory.current = 0
    /\ SelectedCategory.best = 7
    /\ nwins = 0

(***************************************************************************)
(* C3.  No call of the selection callbacks or of record lowers the best of *)
(* any category of any character.                                          *)
(***************************************************************************)
C3_BestNeverDecreases ==
    [][last'.op \in Callbacks =>
          /\ Len(characters') = Len(characters)
          /\ \A i \in 1..Len(characters) :
                /\ Len(characters'[i].streaks) = Len(characters[i].streaks)
                /\ \A j \in 1..Len(characters[i].streaks) :
                      characters'[i].streaks[j].best
                          >= characters[i].streaks[j].best]_vars

\* a win just raised the best of the selected category, and another category
\* of the same character holds a best above its own current
C3_Witness ==
    /\ pc = "running"
    /\ last.op = "record" /\ last.is_win
    /\ HasSelectedCategory
    /\ SelectedCategory.current = SelectedCategory.best
    /\ SelectedCategory.best = 2
    /\ nwins = 2
    /\ \E j \in 1..Len(SelectedCharacter.streaks) :
          SelectedCharacter.streaks[j].best > SelectedCharacter.streaks[j].current

(***************************************************************************)
(* C4.  After load_data and after every record call, every category of     *)
(* every character has best >= current, also for characters loaded from a  *)
(* persisted file with arbitrary integers.                                 *)
(***************************************************************************)
C4_BestAtLeastCurrent ==
    pc = "running" =>
        \A i \in 1..Len(characters) :
            \A j \in 1..Len(characters[i].streaks) :
                characters[i].streaks[j].best >= characters[i].streaks[j].current

(***************************************************************************)
(* C5.  No call of a callback ends the process: in every state, the empty  *)
(* collection included, selecting a character, selecting a category and    *)
(* recording an outcome return.                                            *)
(***************************************************************************)
C5_NoCallbackAborts ==
    ~(pc = "crashed" /\ last.op \in Callbacks)

(***************************************************************************)
(* C6.  After a win on a character that is not the survivor and has a "4k" *)
(* and a "3k", the best of "3k" is at least the best of "4k", and equals   *)
(* the maximum of the best "3k" had before the propagation and the best    *)
(* "4k" has after the win's own mutation, whichever category was selected. *)
(***************************************************************************)
C6_ThreeKFloor ==
    [][(/\ RecordReturned(TRUE)
        /\ HasSelectedCharacter
        /\ ~IsSurvivorName(SelectedCharacter.name)
        /\ \E j \in 1..Len(SelectedCharacter.streaks) :
              SelectedCharacter.streaks[j].name = NAME_4K
        /\ \E j \in 1..Len(SelectedCharacter.streaks) :
              SelectedCharacter.streaks[j].name = NAME_3K) =>
          LET streaks == SelectedCharacter.streaks
              own(cat) == Max(cat.best,
                              IF cat.current = I32Max THEN I32Min
                              ELSE cat.current + 1)
              four == Named(streaks, NAME_4K)
              three == Named(streaks, NAME_3K)
              four_after == IF IsFirstNamed(streaks, current_streak_idx, NAME_4K)
                            THEN own(four) ELSE four.best
              three_before == IF IsFirstNamed(streaks, current_streak_idx, NAME_3K)
                              THEN own(three) ELSE three.best
          IN /\ Named(SelectedCharacter'.streaks, NAME_3K).best
                   = Max(three_before, four_after)
             /\ Named(SelectedCharacter'.streaks, NAME_3K).best
                   >= Named(SelectedCharacter'.streaks, NAME_4K).best]_vars

\* a win was just recorded on a category that is neither "4k" nor "3k" of a
\* killer whose "3k" now carries the best of "4k"
C6_Witness ==
    /\ pc = "running"
    /\ last.op = "record" /\ last.is_win
    /\ HasSelectedCategory
    /\ ~IsSurvivorName(SelectedCharacter.name)
    /\ SelectedCategory.name \notin {NAME_4K, NAME_3K}
    /\ \E i, j \in 1..Len(SelectedCharacter.streaks) :
          /\ SelectedCharacter.streaks[i].name = NAME_4K
          /\ SelectedCharacter.streaks[j].name = NAME_3K
          /\ SelectedCharacter.streaks[j].best = SelectedCharacter.streaks[i].best
          /\ SelectedCharacter.streaks[j].best > SelectedCharacter.streaks[j].current

(***************************************************************************)
(* C7.  For a character whose name is "survivor" in any letter case, a win *)
(* changes only the selected category, also when it has a "4k" and a "3k"  *)
(* with the best of "4k" above the best of "3k".                           *)
(***************************************************************************)
C7_NoPropagationForSurvivor ==
    [][(/\ RecordReturned(TRUE)
        /\ HasSelectedCharacter
        /\ IsSurvivorName(SelectedCharacter.name)) =>
          OnlySelectedCategoryTouched]_vars

\* a win was just recorded for "Survivor", whose "4k" still has a best above
\* the best of its "3k"
C7_Witness ==
    /\ pc = "running"
    /\ last.op = "record" /\ last.is_win
    /\ HasSelectedCategory
    /\ SelectedCharacter.name = SURVIVOR_CAP
    /\ \E i, j \in 1..Len(SelectedCharacter.streaks) :
          /\ SelectedCharacter.streaks[i].name = NAME_4K
          /\ SelectedCharacter.streaks[j].name = NAME_3K
          /\ SelectedCharacter.streaks[i].best > SelectedCharacter.streaks[j].best

(***************************************************************************)
(* C8.  Selecting a character by a name no character has, or a category by *)
(* a name the selected character does not have (even if another character  *)
(* has it), leaves both selection indices and the collection unchanged.    *)
(***************************************************************************)
C8_SelectionMissChangesNothing ==
    [][(\/ /\ last'.op = "on_killer_selected"
           /\ ~any_named(characters, last'.name)
        \/ /\ last'.op = "on_streak_category_selected"
           /\ HasSelectedCharacter
           /\ ~any_named(SelectedCharacter.streaks, last'.name)) =>
          /\ pc' = "running"
          /\ current_char_idx' = current_char_idx
          /\ current_streak_idx' = current_streak_idx
          /\ characters' = characters]_vars

\* the category just asked for belongs to another character only, and the
\* selection still stands on the second category of the first character
C8_Witness ==
    /\ pc = "running"
    /\ last.op = "on_streak_category_selected"
    /\ HasSelectedCharacter
    /\ ~any_named(SelectedCharacter.streaks, last.name)
    /\ \E i \in 1..Len(characters) : any_named(characters[i].streaks, last.name)
    /\ current_char_idx = 0
    /\ current_streak_idx = 1

(***************************************************************************)
(* C9.  Selecting a character by a name that exists puts the character     *)
(* index on a character of exactly that name and the category index on 0,  *)
(* whatever the selection was before, and leaves the collection unchanged. *)
(***************************************************************************)
C9_SelectCharacterResetsCategory ==
    [][(/\ last'.op = "on_killer_selected"
        /\ any_named(characters, last'.name)) =>
          /\ pc' = "running"
          /\ current_char_idx' \in 0..(Len(characters) - 1)
          /\ characters[current_char_idx' + 1].name = last'.name
          /\ \A i \in 1..current_char_idx' : characters[i].name # last'.name
          /\ current_streak_idx' = 0
          /\ characters' = characters]_vars

\* the second character was just selected and the category index is 0
C9_Witness ==
    /\ pc = "running"
    /\ last.op = "on_killer_selected"
    /\ current_char_idx = 1
    /\ current_char_idx < Len(characters)
    /\ characters[current_char_idx + 1].name = last.name
    /\ current_streak_idx = 0

(***************************************************************************)
(* C10.  After load_data the category names within each character are      *)
(* pairwise distinct, for every list the category files can yield          *)
(* (duplicate lines included), for new characters and for characters       *)
(* loaded from a persisted file with distinct names per character.         *)
(***************************************************************************)
C10_CategoryNamesDistinct ==
    (pc = "running" /\ last.op = "main") =>
        \A i \in 1..Len(characters) :
            \A j, k \in 1..Len(characters[i].streaks) :
                characters[i].streaks[j].name = characters[i].streaks[k].name
                    => j = k

(***************************************************************************)
(* C18.  After load_data and any calls of the callbacks in which every     *)
(* write of streaks.json succeeded, a restart on the same media and        *)
(* category files loads a collection equal to the one held in memory just  *)
(* before the restart.                                                     *)
(***************************************************************************)
\* the process that ended had returned from load_data
PreviousMainReturned == ~(last.op = "main" /\ last.saved = "panicked")

C18_RestartPreservesState ==
    [][(/\ pc = "boot"
        /\ restarts > 0
        /\ PreviousMainReturned
        /\ write_failures = 0
        /\ write_failures' = 0) =>
          /\ pc' = "running"
          /\ characters' = characters]_vars

\* the restarted process holds a collection in which a win was recorded and
\* a best propagated before the restart
C18_Witness ==
    /\ pc = "running"
    /\ last.op = "main"
    /\ restarts = 1
    /\ write_failures = 0
    /\ nwins = 2
    /\ \E i \in 1..Len(characters) :
          \E j, k \in 1..Len(characters[i].streaks) :
              /\ characters[i].streaks[j].current = 2
              /\ characters[i].streaks[k].current = 0
              /\ characters[i].streaks[k].best = 2

(***************************************************************************)
(* C19.  On a non-empty collection the character index is a valid index of *)
(* the collection and the category index a valid index of the selected     *)
(* character's streaks, so record always mutates an existing category and  *)
(* never reports the fallback (0, 0).                                      *)
(***************************************************************************)
C19_SelectionInBounds ==
    (pc = "running" /\ Len(characters) > 0) =>
        /\ current_char_idx \in 0..(Len(characters) - 1)
        /\ current_streak_idx
               \in 0..(Len(characters[current_char_idx + 1].streaks) - 1)

\* an outcome was just recorded on the last category of the last character,
\* which is neither the first character nor its first category
C19_Witness ==
    /\ pc = "running"
    /\ last.op = "record"
    /\ Len(characters) > 1
    /\ current_char_idx = Len(characters) - 1
    /\ Len(SelectedCharacter.streaks) > 2
    /\ current_streak_idx = Len(SelectedCharacter.streaks) - 1

(***************************************************************************)
(* C20.  Started on a disk whose persisted current and best are all >= 0   *)
(* (every disk of Disks is), every category keeps current >= 0 and         *)
(* best >= 0 after any sequence of record calls, also after a win recorded *)
(* when current is the largest value of the 32-bit field.                  *)
(***************************************************************************)
C20_CountersNonNegative ==
    pc = "running" =>
        \A i \in 1..Len(characters) :
            \A j \in 1..Len(characters[i].streaks) :
                /\ characters[i].streaks[j].current >= 0
                /\ characters[i].streaks[j].best >= 0

(***************************************************************************)
(* C17.  For every stem over lowercase letters, uppercase letters and '_', *)
(* format_name gives the stem with each '_' turned into a space and a      *)
(* space put in front of exactly those uppercase letters that directly     *)
(* follow a lowercase letter; nothing else is added, removed or reordered. *)
(***************************************************************************)
\* what character i of the stem contributes to the derived name
DerivedPiece(stem, i) ==
    (IF /\ i > 1
        /\ stem[i] \in Range(UpperLetters)
        /\ stem[i - 1] \in Range(LowerLetters)
     THEN <<" ">> ELSE <<>>)
        \o <<IF stem[i] = "_" THEN " " ELSE stem[i]>>

RECURSIVE DerivedUpTo(_, _)
DerivedUpTo(stem, n) ==
    IF n = 0 THEN <<>> ELSE DerivedUpTo(stem, n - 1) \o DerivedPiece(stem, n)

DerivedName(stem) == DerivedUpTo(stem, Len(stem))

\* an entry of media/ the scan turns into a character
IsImage(entry) ==
    /\ entry.stem_utf8
    /\ entry.ext.some
    /\ entry.ext.text \in {<<"p", "n", "g">>, <<"P", "N", "G">>}

C17_FormatName ==
    (pc = "running" /\ last.op = "main") =>
        \A e \in media.entries :
            IsImage(e) =>
                \E i \in 1..Len(characters) :
                    /\ characters[i].name = DerivedName(e.stem)
                    /\ (Cardinality(media.entries) = 1 /\ Len(characters) = 1) =>
                           characters[i].image_path = path_string(e)

\* load_data has made the character "Pig Mask" out of PigMask.png
C17_Witness ==
    /\ pc = "running"
    /\ last.op = "main"
    /\ media = Dir({DirEntry(PIG_MASK_STEM, Ext(PNG), TRUE)})
    /\ Len(characters) = 1
    /\ characters[1].name = <<"P", "i", "g", " ", "M", "a", "s", "k">>

(***************************************************************************)
(* Vocabulary of the startup properties.                                   *)
(***************************************************************************)
\* the step is a run of load_data that returned
LoadReturned == pc = "boot" /\ pc' = "running"

NamesDistinct(v) ==
    \A i, j \in 1..Len(v) : v[i].name = v[j].name => i = j

NamesOf(v) == [i \in 1..Len(v) |-> v[i].name]

\* a line that holds a category: readable, and after trimming neither empty
\* nor a comment
IsCategoryLine(l) ==
    /\ l.ok
    /\ trim(l.text) # <<>>
    /\ trim(l.text)[1] # "#"

CategoryLines(file) ==
    LET kept == SelectSeq(file.lines, IsCategoryLine)
    IN [i \in 1..Len(kept) |-> trim(kept[i].text)]

\* the list the category source is said to return for a file
ClaimedCategories(file, defaults) ==
    IF file.exists /\ CategoryLines(file) # <<>>
    THEN CategoryLines(file)
    ELSE defaults

\* the file is said to be left alone when it holds a category, and otherwise
\* to be rewritten with the defaults unless the write fails
ClaimedFileAfter(file, after, defaults) ==
    IF file.exists /\ CategoryLines(file) # <<>>
    THEN after = file
    ELSE after \in {file, create_default_streaks_file(defaults)}

\* the list of the group a character of that name belongs to, as the code
\* reads it from the files before the step
GroupList(name) ==
    IF IsSurvivorName(name)
    THEN load_categories_from_file(survivor_txt, DEFAULT_SURVIVOR_STREAK_CATEGORIES)
    ELSE load_categories_from_file(killer_txt, DEFAULT_KILLER_STREAK_CATEGORIES)

(***************************************************************************)
(* C11.  A second load_data on what the first one left (same media, same   *)
(* category files, streaks.json as the first run left it) reports no       *)
(* change, writes nothing and returns a collection equal to the first      *)
(* run's.  This is the statement as claimed; it does not hold when the     *)
(* first run's write of streaks.json failed.                               *)
(***************************************************************************)
\* the process that ended ran load_data to its end and handled no call
SecondRunAfterLoad ==
    /\ pc = "boot"
    /\ restarts > 0
    /\ last.op = "main"
    /\ last.saved # "panicked"

Idempotent ==
    /\ pc' = "running"
    /\ ~last'.data_changed
    /\ last'.saved = "none"
    /\ streaks_json' = streaks_json
    /\ characters' = characters

KeptAndAppended(before, after) ==
    /\ after.name = before.name
    /\ after.image_path = before.image_path
    /\ Len(after.streaks) >= Len(before.streaks)
    /\ SubSeq(after.streaks, 1, Len(before.streaks)) = before.streaks
    /\ \A j \in (Len(before.streaks) + 1)..Len(after.streaks) :
          /\ after.streaks[j].current = 0
          /\ after.streaks[j].best = 0
          /\ ~\E k \in 1..Len(before.streaks) :
                  before.streaks[k].name = after.streaks[j].name
          /\ \E k \in 1..Len(GroupList(before.name)) :
                  GroupList(before.name)[k] = after.streaks[j].name

C12_AppendOnly ==
    [][LoadReturned =>
          \A i \in 1..Len(decode_persisted(streaks_json)) :
              \E j \in 1..Len(characters') :
                  KeptAndAppended(decode_persisted(streaks_json)[i],
                                  characters'[j])]_vars

\* "Survivor" was loaded with its "4k" and "3k", which the survivor list does
\* not have, and got "Solo" appended behind them
C12_Witness ==
    /\ pc = "running"
    /\ last.op = "main"
    /\ restarts = 0
    /\ survivor_txt = SURVIVOR_TXT_SOLO
    /\ \E i \in 1..Len(characters) :
          /\ characters[i].name = SURVIVOR_CAP
          /\ characters[i].streaks =
                << StreakCategory(NAME_4K, 5, 7), StreakCategory(NAME_3K, 2, 2),
                   StreakCategory(SOLO, 0, 0) >>

(***************************************************************************)
(* C13.  If the persisted character names are pairwise distinct, so are    *)
(* the names after load_data, also when an image derives the name of a     *)
(* persisted character or several images derive the same name; names that  *)
(* differ only in letter case stay separate characters.                    *)
(***************************************************************************)
C13_NoDuplicateCharacters ==
    [][(LoadReturned /\ NamesDistinct(decode_persisted(streaks_json))) =>
          /\ NamesDistinct(characters')
          /\ \A i \in 1..Len(decode_persisted(streaks_json)) :
                any_named(characters', decode_persisted(streaks_json)[i].name)
          /\ \A e \in media.entries :
                IsImage(e) => any_named(characters', DerivedName(e.stem))
          /\ \A j \in 1..Len(characters') :
                \/ any_named(decode_persisted(streaks_json), characters'[j].name)
                \/ \E e \in media.entries :
                      IsImage(e) /\ DerivedName(e.stem) = characters'[j].name]_vars

\* the persisted "Nurse" met Nurse.png and nurse.png: there is one "Nurse",
\* and "nurse" is a character of its own
C13_Witness ==
    /\ pc = "running"
    /\ last.op = "main"
    /\ media = MEDIA_LETTER_CASE
    /\ Len(characters) = 3
    /\ any_named(characters, NURSE)
    /\ any_named(characters, NURSE_LOWER)
    /\ any_named(characters, TRAPPER)

(***************************************************************************)
(* C14.  A newly discovered character gets exactly one category per name   *)
(* of its group's list, each with current = 0 and best = 0, the group      *)
(* being the survivor list iff the derived name is "survivor" in any       *)
(* letter case; and after load_data every character has every category     *)
(* name of its group's list.                                               *)
(***************************************************************************)
C14_GroupCategories ==
    [][LoadReturned =>
          \A i \in 1..Len(characters') :
              LET c == characters'[i]
                  list == GroupList(c.name)
              IN /\ \A k \in 1..Len(list) : any_named(c.streaks, list[k])
                 /\ ~any_named(decode_persisted(streaks_json), c.name) =>
                       /\ \A k \in 1..Len(list) :
                             Cardinality({j \in 1..Len(c.streaks) :
                                             c.streaks[j].name = list[k]}) = 1
                       /\ \A j \in 1..Len(c.streaks) :
                             /\ c.streaks[j].current = 0
                             /\ c.streaks[j].best = 0
                             /\ \E k \in 1..Len(list) :
                                   list[k] = c.streaks[j].name]_vars

(***************************************************************************)
(* C15.  load_data with a streaks.json that does not decode does not abort *)
(* and returns the collection it returns with streaks.json absent (same    *)
(* media, same category files): the collection rebuilt from discovery.     *)
(***************************************************************************)
C15_MalformedAsAbsent ==
    [][(pc = "boot" /\ streaks_json.state = "malformed") =>
          /\ pc' = "running"
          /\ \E entries \in Orders(media.entries) :
                characters' = load_data(killer_txt, survivor_txt, NoJson,
                                        entries).characters]_vars

(***************************************************************************)
(* C16.  The category source returns, in file order, the trimmed lines of  *)
(* the file that are neither empty nor comments when there is one; and     *)
(* otherwise the defaults, after trying to write the file with the header  *)
(* and the defaults.  Read off the characters load_data creates when       *)
(* nothing is persisted: each carries the list of its group.               *)
(***************************************************************************)
C16_LoadCategories ==
    [][LoadReturned =>
          /\ ClaimedFileAfter(killer_txt, killer_txt',
                              DEFAULT_KILLER_STREAK_CATEGORIES)
          /\ ClaimedFileAfter(survivor_txt, survivor_txt',
                              DEFAULT_SURVIVOR_STREAK_CATEGORIES)
          /\ decode_persisted(streaks_json) = <<>> =>
                \A i \in 1..Len(characters') :
                    NamesOf(characters'[i].streaks) =
                        IF IsSurvivorName(characters'[i].name)
                        THEN ClaimedCategories(survivor_txt,
                                 DEFAULT_SURVIVOR_STREAK_CATEGORIES)
                        ELSE ClaimedCategories(killer_txt,
                                 DEFAULT_KILLER_STREAK_CATEGORIES)]_vars

=============================================================================
